---- MODULE Spec2Model ----
(***************************************************************************)
(* Model of repo_cobol_parser.py: the per-file structural parser           *)
(* (CobolParser), the PROGRAM-ID sniffer, the program index and the        *)
(* repo-level resolution pass (parse_repo / main).                         *)
(*                                                                         *)
(* Source text is modelled at token level.  A line is a sequence of        *)
(* tokens (the whitespace-separated pieces of the line); a token is a      *)
(* record [k, s, dot]:                                                     *)
(*   k = "w"     a run of [\w-] characters starting with a letter          *)
(*   k = "n"     a run of decimal digits (also matched by [\w-]+)          *)
(*   k = "q"     a double-quoted run of [\w-] characters                   *)
(*   k = "p"     a picture string with parentheses, e.g. X(10)             *)
(*   k = "star"  a comment marker ("*" or "*>")                            *)
(*   s           the characters of the run (without quotes / final dot)    *)
(*   dot         TRUE when a "." directly follows the run                  *)
(* The regular expressions of the source are translated to predicates on   *)
(* token sequences.                                                        *)
(***************************************************************************)
EXTENDS Integers, Sequences, FiniteSets, TLC

VARIABLES
    text,       \* parser run: the lines of the file being parsed
    parser,     \* parser run: the CobolParser instance and parse()'s locals
    lineno,     \* parser run: number of lines consumed by the for loop
    ppc,        \* parser run: position ("parsing", "parsed", "reparsed")
    last,       \* parser run: the previously completed CobolParser instance
    root_exists,    \* repo run: whether the repository root exists
    files,          \* repo run: the .cbl files under the root, in rglob order
    pc,             \* repo run: the phase of main() / parse_repo()
    nfile,          \* repo run: files consumed by the loop of the phase
    nedge,          \* repo run: edges of the current parser already resolved
    out_dir,        \* repo run: whether the output directory was created
    program_index,  \* repo run: lower-cased PROGRAM-ID -> path
    structures,     \* repo run: the parsers, in insertion order of the dict
    all_edges,      \* repo run: the flat edge list
    written,        \* repo run: the structure files written
    callgraph,      \* repo run: the content of the call-graph file
    error           \* repo run: the exception that ended the run

pvars == <<text, parser, lineno, ppc, last>>
rvars == <<root_exists, files, pc, nfile, nedge, out_dir, program_index, structures,
           all_edges, written, callgraph, error>>
vars == <<text, parser, lineno, ppc, last, root_exists, files, pc,
          nfile, nedge, out_dir, program_index, structures, all_edges, written, callgraph, error>>

----------------------------------------------------------------------------
(* Bounds *)

MaxLines == 4
MaxFiles == 2
MaxCalls == 2

----------------------------------------------------------------------------
(* Tokens and character-level tables *)

W(s)  == [k |-> "w", s |-> s, dot |-> FALSE]
Wd(s) == [k |-> "w", s |-> s, dot |-> TRUE]
N(s)  == [k |-> "n", s |-> s, dot |-> FALSE]
Q(s)  == [k |-> "q", s |-> s, dot |-> FALSE]
P(s)  == [k |-> "p", s |-> s, dot |-> TRUE]
Star  == [k |-> "star", s |-> "*", dot |-> FALSE]

\* Python's None
None == "<None>"

\* The identifiers of the model with their str.upper() and str.lower() forms.
CaseTable ==
    { [s |-> "DATA",            u |-> "DATA",            l |-> "data"],
      [s |-> "PROCEDURE",       u |-> "PROCEDURE",       l |-> "procedure"],
      [s |-> "procedure",       u |-> "PROCEDURE",       l |-> "procedure"],
      [s |-> "DIVISION",        u |-> "DIVISION",        l |-> "division"],
      [s |-> "division",        u |-> "DIVISION",        l |-> "division"],
      [s |-> "SECTION",         u |-> "SECTION",         l |-> "section"],
      [s |-> "WORKING-STORAGE", u |-> "WORKING-STORAGE", l |-> "working-storage"],
      [s |-> "PROGRAM-ID",      u |-> "PROGRAM-ID",      l |-> "program-id"],
      [s |-> "PIC",             u |-> "PIC",             l |-> "pic"],
      [s |-> "CALL",            u |-> "CALL",            l |-> "call"],
      [s |-> "PERFORM",         u |-> "PERFORM",         l |-> "perform"],
      [s |-> "MAIN",            u |-> "MAIN",            l |-> "main"],
      [s |-> "main",            u |-> "MAIN",            l |-> "main"],
      [s |-> "SUB1",            u |-> "SUB1",            l |-> "sub1"],
      [s |-> "Sub1",            u |-> "SUB1",            l |-> "sub1"],
      [s |-> "sub1",            u |-> "SUB1",            l |-> "sub1"],
      [s |-> "SUB2",            u |-> "SUB2",            l |-> "sub2"],
      [s |-> "CLEANUP",         u |-> "CLEANUP",         l |-> "cleanup"],
      [s |-> "START-UP",        u |-> "START-UP",        l |-> "start-up"],
      [s |-> "WRAP-UP",         u |-> "WRAP-UP",         l |-> "wrap-up"],
      [s |-> "WS-A",            u |-> "WS-A",            l |-> "ws-a"],
      [s |-> "util",            u |-> "UTIL",            l |-> "util"],
      [s |-> "77",              u |-> "77",              l |-> "77"],
      [s |-> "100",             u |-> "100",             l |-> "100"],
      [s |-> "X(10)",           u |-> "X(10)",           l |-> "x(10)"] }

UpperOf == [s \in {r.s : r \in CaseTable} |-> (CHOOSE r \in CaseTable : r.s = s).u]
LowerOf == [s \in {r.s : r \in CaseTable} |-> (CHOOSE r \in CaseTable : r.s = s).l]

\* str.upper() and str.lower()
Upper(s) == UpperOf[s]
Lower(s) == LowerOf[s]

\* The decimal digits of the digit runs of the model.
DigitsOf(s) ==
    CASE s = "77"  -> <<7, 7>>
      [] s = "100" -> <<1, 0, 0>>

\* int() of a digit run
RECURSIVE IntOfDigits(_)
IntOfDigits(d) ==
    IF d = <<>> THEN 0 ELSE 10 * IntOfDigits(SubSeq(d, 1, Len(d) - 1)) + d[Len(d)]

Range(f) == {f[i] : i \in DOMAIN f}
MinOf(S) == CHOOSE x \in S : \A y \in S : x <= y

\* [\w-]+ matches the whole run
WordTok(t) == t.k \in {"w", "n"}
\* keyword kw under re.I
IsKw(t, kw) == t.k = "w" /\ Upper(t.s) = kw

----------------------------------------------------------------------------
(* The regular expressions.  Each returns the tuple of captured groups     *)
(* (m[1], m[2], ...) or <<>> when there is no match.                       *)

\* raw.lstrip().startswith(("*", "*>"))
COMMENT(raw) == Len(raw) > 0 /\ raw[1].k = "star"

\* ^\s*(\w[\w-]*)\s+DIVISION\b
DIV_RE(strip) ==
    IF /\ Len(strip) >= 2
       /\ WordTok(strip[1]) /\ ~strip[1].dot
       /\ IsKw(strip[2], "DIVISION")
    THEN <<strip[1].s>> ELSE <<>>

\* ^\s*(\w[\w-]*)\s+SECTION\.
SEC_RE(strip) ==
    IF /\ Len(strip) >= 2
       /\ WordTok(strip[1]) /\ ~strip[1].dot
       /\ IsKw(strip[2], "SECTION") /\ strip[2].dot
    THEN <<strip[1].s>> ELSE <<>>

\* ^\s*PROGRAM-ID\.\s+([\w-]+)\.   applied with match() to one line
PROGID_RE(strip) ==
    IF /\ Len(strip) >= 2
       /\ IsKw(strip[1], "PROGRAM-ID") /\ strip[1].dot
       /\ WordTok(strip[2]) /\ strip[2].dot
    THEN <<strip[2].s>> ELSE <<>>

\* \d+ in place of \d{2}
AnyDigits(t) == t.k = "n" /\ Len(DigitsOf(t.s)) >= 1

\* \d{2}
TwoDigits(t) == t.k = "n" /\ Len(DigitsOf(t.s)) = 2

\* positions of a PIC keyword followed by a run of [A-Za-z0-9()V-]
PicSites(strip) ==
    { i \in 3..(Len(strip) - 1) :
        /\ IsKw(strip[i], "PIC") /\ ~strip[i].dot
        /\ strip[i + 1].k \in {"w", "n", "p"} }

\* ^\s*(\d{2})\s+([\w-]+).*?\bPIC\b\s+([A-Za-z0-9()V-]+)
VAR_RE(strip) ==
    IF /\ Len(strip) >= 4
       /\ TwoDigits(strip[1]) /\ ~strip[1].dot
       /\ WordTok(strip[2])
       /\ PicSites(strip) # {}
    THEN <<strip[1].s, strip[2].s, strip[MinOf(PicSites(strip)) + 1].s>>
    ELSE <<>>

\* ^\s*([\w-]+)\.\s*$
PAR_RE(strip) ==
    IF Len(strip) = 1 /\ WordTok(strip[1]) /\ strip[1].dot
    THEN <<strip[1].s>> ELSE <<>>

\* positions of a CALL keyword followed by an optionally quoted name
CallSites(strip) ==
    { i \in 1..(Len(strip) - 1) :
        /\ IsKw(strip[i], "CALL") /\ ~strip[i].dot
        /\ strip[i + 1].k \in {"w", "n", "q"} }

\* \bCALL\s+\"?([\w-]+)\"?   applied with search(): the first match
CALL_RE(strip) ==
    IF CallSites(strip) # {} THEN <<strip[MinOf(CallSites(strip)) + 1].s>> ELSE <<>>

\* positions of a PERFORM keyword followed by a name
PerfSites(strip) ==
    { i \in 1..(Len(strip) - 1) :
        /\ IsKw(strip[i], "PERFORM") /\ ~strip[i].dot
        /\ WordTok(strip[i + 1]) }

\* \bPERFORM\s+([\w-]+)   applied with search(): the first match
PERF_RE(strip) ==
    IF PerfSites(strip) # {} THEN <<strip[MinOf(PerfSites(strip)) + 1].s>> ELSE <<>>

----------------------------------------------------------------------------
(* CobolParser *)

\* path.stem
Stem(path) ==
    CASE path = "src/main.cbl" -> "main"
      [] path = "src/sub1.cbl" -> "sub1"
      [] path = "lib/sub1.cbl" -> "sub1"
      [] path = "lib/util.cbl" -> "util"

EmptyDict == [k \in {} |-> <<>>]

\* The fields a new CobolParser has, with the locals of parse() (div, sec,
\* para) at their initial value.
FreshParser(path) ==
    [ path          |-> path,
      program_id    |-> Stem(path),
      divisions     |-> <<>>,
      data_sections |-> EmptyDict,
      paragraphs    |-> EmptyDict,
      calls         |-> <<>>,
      div  |-> None, sec |-> None, para |-> None ]

\* __init__ with the calls list shared between instances
CobolParserInitSharedCalls(path) == [FreshParser(path) EXCEPT !.calls = last.calls]

\* __init__ with the whole path as the default identifier
CobolParserInitPathId(path) == [FreshParser(path) EXCEPT !.program_id = path]

\* CobolParser.__init__
CobolParserInit(path) == FreshParser(path)

\* self.divisions.append(div) without the membership test
AddDivisionAlways(divisions, d) == Append(divisions, d)

\* if div not in self.divisions: self.divisions.append(div)
AddDivision(divisions, d) ==
    IF d \in Range(divisions) THEN divisions ELSE Append(divisions, d)

\* self.data_sections[sec].append(item)   (a defaultdict(list))
AddDataItem(data_sections, s, item) ==
    IF s \in DOMAIN data_sections
    THEN [data_sections EXCEPT ![s] = Append(@, item)]
    ELSE data_sections @@ (s :> <<item>>)

\* dict(level=int(m[1]), name=m[2], pic=m[3])
DataItem(m) == [level |-> IntOfDigits(DigitsOf(m[1])), name |-> m[2], pic |-> m[3]]

\* self.paragraphs[para] = dict(statements=[])
OpenParagraph(paragraphs, name) ==
    IF name \in DOMAIN paragraphs
    THEN [paragraphs EXCEPT ![name] = [statements |-> <<>>]]
    ELSE paragraphs @@ (name :> [statements |-> <<>>])

\* statements.insert(0, ...) in place of append
AddStatementFirst(paragraphs, name, type, tgt, ln) ==
    [paragraphs EXCEPT ![name].statements =
        <<[type |-> type, target |-> tgt, line |-> ln]>> \o @]

\* self.paragraphs[para]["statements"].append(dict(type=..., target=..., line=...))
AddStatement(paragraphs, name, type, tgt, ln) ==
    [paragraphs EXCEPT ![name].statements =
        Append(@, [type |-> type, target |-> tgt, line |-> ln])]

\* dict(from_file=str(self.path), from_paragraph=para, line=lineno, to_program=tgt)
RawEdge(path, para, ln, tgt) ==
    [from_file |-> path, from_paragraph |-> para, line |-> ln, to_program |-> tgt]

\* the test without div == "DATA"
DataGuardAnyDivision(p) == p.sec # None

\* div == "DATA" and sec
DataGuard(p) == p.div = "DATA" /\ p.sec # None

\* the CALL branch of the loop body
OnCall(p, strip, ln) ==
    LET m == CALL_RE(strip) IN
    IF m = <<>> THEN p
    ELSE [p EXCEPT
            !.paragraphs = AddStatement(@, p.para, "CALL", m[1], ln),
            !.calls = Append(@, RawEdge(p.path, p.para, ln, m[1]))]

\* the PERFORM branch also recording a call edge
OnPerformWithEdge(p, strip, ln) ==
    LET m == PERF_RE(strip) IN
    IF m = <<>> THEN p
    ELSE [p EXCEPT
            !.paragraphs = AddStatement(@, p.para, "PERFORM", m[1], ln),
            !.calls = Append(@, RawEdge(p.path, p.para, ln, m[1]))]

\* the PERFORM branch of the loop body
OnPerform(p, strip, ln) ==
    LET m == PERF_RE(strip) IN
    IF m = <<>> THEN p
    ELSE [p EXCEPT !.paragraphs = AddStatement(@, p.para, "PERFORM", m[1], ln)]

\* the PROCEDURE part without the test for an open paragraph
OnProcedureNoParagraphCheck(p, strip, ln) ==
    IF PAR_RE(strip) # <<>>
    THEN [p EXCEPT !.para = PAR_RE(strip)[1],
                   !.paragraphs = OpenParagraph(@, PAR_RE(strip)[1])]
    ELSE OnPerform(OnCall(p, strip, ln), strip, ln)

\* the "if div == PROCEDURE" part of the loop body
OnProcedure(p, strip, ln) ==
    IF PAR_RE(strip) # <<>>
    THEN [p EXCEPT !.para = PAR_RE(strip)[1],
                   !.paragraphs = OpenParagraph(@, PAR_RE(strip)[1])]
    ELSE IF p.para = None THEN p
    ELSE OnPerform(OnCall(p, strip, ln), strip, ln)

\* a division header that leaves section and paragraph open
OnDivisionKeepsContext(p, name) ==
    [p EXCEPT !.div = name, !.divisions = AddDivision(@, name)]

\* the division header branch: div = name, sec = para = None, divisions
OnDivision(p, name) ==
    [p EXCEPT !.div = name, !.sec = None, !.para = None,
              !.divisions = AddDivision(@, name)]

\* a section header that closes the open paragraph
OnSectionClosesParagraph(p, name) == [p EXCEPT !.sec = name, !.para = None]

\* the section header branch: sec = name
OnSection(p, name) == [p EXCEPT !.sec = name]

\* One iteration of the for loop of parse(): line number ln, line raw.
ParseLine(p, raw, ln) ==
    IF COMMENT(raw) THEN p
    ELSE IF raw = <<>> THEN p
    ELSE IF DIV_RE(raw) # <<>>
    THEN OnDivision(p, Upper(DIV_RE(raw)[1]))
    ELSE IF SEC_RE(raw) # <<>>
    THEN OnSection(p, Upper(SEC_RE(raw)[1]))
    ELSE IF PROGID_RE(raw) # <<>>
    THEN [p EXCEPT !.program_id = PROGID_RE(raw)[1]]
    ELSE IF DataGuard(p) /\ VAR_RE(raw) # <<>>
    THEN [p EXCEPT !.data_sections = AddDataItem(@, p.sec, DataItem(VAR_RE(raw)))]
    ELSE IF p.div = "PROCEDURE"
    THEN OnProcedure(p, raw, ln)
    ELSE p

\* The lines 1..n of the for loop, applied in order.
RECURSIVE ParseLines(_, _, _)
ParseLines(p, lines, n) ==
    IF n = 0 THEN p ELSE ParseLine(ParseLines(p, lines, n - 1), lines[n], n)

\* parse(): div = sec = para = None, then the loop over all lines
Parse(p, lines) ==
    ParseLines([p EXCEPT !.div = None, !.sec = None, !.para = None], lines, Len(lines))

\* to_dict()
ToDict(p) ==
    [ file |-> p.path, program_id |-> p.program_id, divisions |-> p.divisions,
      data_sections |-> p.data_sections, paragraphs |-> p.paragraphs ]

----------------------------------------------------------------------------
(* Parser run: one file parsed line by line, then parsed again by a new    *)
(* CobolParser instance.                                                   *)

\* The lines files of the parser run are made of.
ParserLines ==
    { <<W("DATA"), Wd("DIVISION")>>,
      <<W("procedure"), Wd("division")>>,
      <<W("WORKING-STORAGE"), Wd("SECTION")>>,
      <<Wd("PROGRAM-ID"), Wd("MAIN")>>,
      <<N("77"), W("WS-A"), W("PIC"), P("X(10)")>>,
      <<N("100"), W("WS-A"), W("PIC"), P("X(10)")>>,
      <<Wd("START-UP")>>,
      <<Wd("WRAP-UP")>>,
      <<W("CALL"), Q("SUB1"), W("PERFORM"), W("CLEANUP")>>,
      <<W("PERFORM"), W("CLEANUP"), W("CALL"), Q("SUB1"), W("CALL"), Q("SUB2")>>,
      <<Star, W("CALL"), Q("SUB1")>> }

ParserPath == "src/main.cbl"

RECURSIVE SeqsUpTo(_, _)
SeqsUpTo(S, n) ==
    IF n = 0 THEN {<<>>}
    ELSE LET R == SeqsUpTo(S, n - 1) IN
         R \cup {Append(q, x) : q \in {r \in R : Len(r) = n - 1}, x \in S}

\* the repo run does not take part in the parser run
RepoIdle ==
    /\ root_exists = FALSE /\ files = <<>> /\ pc = "idle" /\ nfile = 0 /\ nedge = 0
    /\ out_dir = FALSE /\ program_index = EmptyDict /\ structures = <<>>
    /\ all_edges = <<>> /\ written = <<>> /\ callgraph = None /\ error = None

ParseInit ==
    /\ RepoIdle
    /\ text \in SeqsUpTo(ParserLines, MaxLines)
    /\ last = FreshParser(ParserPath)
    /\ parser = CobolParserInit(ParserPath)
    /\ lineno = 0
    /\ ppc = "parsing"

\* one iteration of "for lineno, raw in enumerate(..., 1)"
ParseStep ==
    /\ ppc = "parsing"
    /\ lineno < Len(text)
    /\ lineno' = lineno + 1
    /\ parser' = ParseLine(parser, text[lineno + 1], lineno + 1)
    /\ UNCHANGED <<text, ppc, last>>
    /\ UNCHANGED rvars

\* the loop is exhausted: parse() returns
ParseReturn ==
    /\ ppc = "parsing"
    /\ lineno = Len(text)
    /\ ppc' = "parsed"
    /\ last' = parser
    /\ UNCHANGED <<text, parser, lineno>>
    /\ UNCHANGED rvars

\* a second CobolParser(path) is created for the same file and parse()d
ParseAnew ==
    /\ ppc = "parsed"
    /\ parser' = Parse(CobolParserInit(parser.path), text)
    /\ ppc' = "reparsed"
    /\ UNCHANGED <<text, lineno, last>>
    /\ UNCHANGED rvars

ParseNext == ParseStep \/ ParseReturn \/ ParseAnew

SpecParse == ParseInit /\ [][ParseNext]_vars

\* parse() is called once more on the same CobolParser
ParseAgain ==
    /\ ppc = "parsed"
    /\ parser' = Parse(parser, text)
    /\ ppc' = "parsed_twice"
    /\ UNCHANGED <<text, lineno, last>>
    /\ UNCHANGED rvars

ParseTwiceNext == ParseStep \/ ParseReturn \/ ParseAgain

SpecParseTwice == ParseInit /\ [][ParseTwiceNext]_vars

----------------------------------------------------------------------------
(* sniff_program_id and build_index *)

\* The text of a file as one token stream; first marks the first token of
\* a line (where ^ matches under re.M).
RECURSIVE Stream(_, _)
Stream(lines, n) ==
    IF n = 0 THEN <<>>
    ELSE Stream(lines, n - 1) \o
         [j \in 1..Len(lines[n]) |-> [tok |-> lines[n][j], first |-> j = 1]]

\* positions where ^\s*PROGRAM-ID\.\s+([\w-]+)\. matches in the text; \s+
\* also runs over line ends
ProgIdSites(st) ==
    { k \in 1..(Len(st) - 1) :
        /\ st[k].first
        /\ IsKw(st[k].tok, "PROGRAM-ID") /\ st[k].tok.dot
        /\ WordTok(st[k + 1].tok) /\ st[k + 1].tok.dot }

\* _PROGID_RE.search(text): the first match
PROGID_RE_search(lines) ==
    LET st == Stream(lines, Len(lines)) IN
    IF ProgIdSites(st) # {} THEN <<st[MinOf(ProgIdSites(st)) + 1].tok.s>> ELSE <<>>

\* sniff_program_id(path)
sniff_program_id(f) ==
    IF ~f.readable THEN None
    ELSE LET m == PROGID_RE_search(f.text) IN
         IF m # <<>> THEN m[1] ELSE None

\* idx[key] = f
DictPut(idx, key, f) ==
    IF key \in DOMAIN idx THEN [idx EXCEPT ![key] = f] ELSE idx @@ (key :> f)

\* the index keeping the first file of an identifier
IndexFileFirstWins(idx, f) ==
    IF sniff_program_id(f) # None /\ Lower(sniff_program_id(f)) \notin DOMAIN idx
    THEN DictPut(idx, Lower(sniff_program_id(f)), f.path)
    ELSE idx

\* the index falling back to the file name when no PROGRAM-ID is found
IndexFileStemDefault(idx, f) ==
    IF sniff_program_id(f) # None
    THEN DictPut(idx, Lower(sniff_program_id(f)), f.path)
    ELSE DictPut(idx, Lower(Stem(f.path)), f.path)

\* one iteration of the loop of build_index
IndexFile(idx, f) ==
    IF sniff_program_id(f) # None
    THEN DictPut(idx, Lower(sniff_program_id(f)), f.path)
    ELSE idx

\* build_index over the first n files
RECURSIVE build_index(_, _)
build_index(fs, n) ==
    IF n = 0 THEN EmptyDict ELSE IndexFile(build_index(fs, n - 1), fs[n])

----------------------------------------------------------------------------
(* main and parse_repo *)

\* the statements of parse_repo in an order that builds the index last
NextPhaseIndexLast(phase) ==
    CASE phase = "mkdir"       -> "parse"
      [] phase = "parse"       -> "resolve"
      [] phase = "resolve"     -> "build_index"
      [] phase = "build_index" -> "emit"
      [] phase = "emit"        -> "callgraph"
      [] phase = "callgraph"   -> "done"

\* the order of the statements of parse_repo
NextPhase(phase) ==
    CASE phase = "mkdir"       -> "build_index"
      [] phase = "build_index" -> "parse"
      [] phase = "parse"       -> "resolve"
      [] phase = "resolve"     -> "emit"
      [] phase = "emit"        -> "callgraph"
      [] phase = "callgraph"   -> "done"

\* edge["to_file"] = str(program_index.get(tgt_prog)) if tgt_prog in program_index else None
Resolve(idx, edge) ==
    [ from_file     |-> edge.from_file,
      from_paragraph |-> edge.from_paragraph,
      line          |-> edge.line,
      to_program    |-> edge.to_program,
      to_file       |-> IF Lower(edge.to_program) \in DOMAIN idx
                        THEN idx[Lower(edge.to_program)] ELSE None ]

\* only resolved edges are kept
AppendEdgeIfResolved(edges, edge) ==
    IF edge.to_file = None THEN edges ELSE Append(edges, edge)

\* all_edges.append(edge)
AppendEdge(edges, edge) == Append(edges, edge)

\* The paths rglob yields, in its order.
Paths == <<"src/main.cbl", "src/sub1.cbl", "lib/sub1.cbl", "lib/util.cbl">>

\* The lines "PROGRAM-ID. <name>."
Decl(name) == <<Wd("PROGRAM-ID"), Wd(name)>>

\* The declaration lines a file of the repo run starts with: none, one
\* declaration, two declarations, or a declaration broken over two lines.
DeclChoices ==
    { <<>>,
      <<Decl("Sub1")>>,
      <<Decl("SUB1")>>,
      <<Decl("MAIN")>>,
      <<Decl("MAIN"), Decl("Sub1")>>,
      <<<<Wd("PROGRAM-ID")>>, <<Wd("Sub1")>>>> }

\* The target of the k-th CALL of a file of the repo run.
CallTarget(k) == IF k % 2 = 1 THEN "sub1" ELSE "MAIN"

\* A program: its declarations, then a procedure division with one
\* paragraph holding n CALL lines.
ProgramText(decls, n) ==
    decls
    \o (IF n = 0 THEN <<>>
        ELSE <<<<W("PROCEDURE"), Wd("DIVISION")>>, <<Wd("START-UP")>>>>
             \o [k \in 1..n |-> <<W("CALL"), Q(CallTarget(k))>>])

\* What a file under the root can be: unreadable, or a readable program.
FileChoices ==
    {[readable |-> FALSE, text |-> <<>>]}
    \cup {[readable |-> TRUE, text |-> ProgramText(d, n)] : d \in DeclChoices, n \in 0..MaxCalls}

\* The repositories of n files.
Repos(n) ==
    { [k \in 1..n |-> [path |-> Paths[k], readable |-> c[k].readable, text |-> c[k].text]] :
        c \in [1..n -> FileChoices] }

\* the parser run does not take part in the repo run
ParserIdle ==
    /\ text = <<>> /\ lineno = 0 /\ ppc = "idle"
    /\ parser = FreshParser(ParserPath) /\ last = FreshParser(ParserPath)

Init ==
    /\ ParserIdle
    /\ \/ root_exists = FALSE /\ files = <<>>
       \/ root_exists = TRUE /\ \E n \in 0..MaxFiles : files \in Repos(n)
    /\ pc = "main" /\ nfile = 0 /\ nedge = 0
    /\ out_dir = FALSE /\ program_index = EmptyDict /\ structures = <<>>
    /\ all_edges = <<>> /\ written = <<>> /\ callgraph = None /\ error = None

\* main() entering parse_repo without the test of the root
MainNoRootCheck ==
    /\ pc = "main"
    /\ pc' = "mkdir"
    /\ UNCHANGED <<root_exists, files, nfile, nedge, out_dir, program_index, structures,
                   all_edges, written, callgraph, error>>
    /\ UNCHANGED pvars

\* main(): the root is checked, then parse_repo is entered
Main ==
    /\ pc = "main"
    /\ IF root_exists
       THEN pc' = "mkdir" /\ error' = error
       ELSE pc' = "raised" /\ error' = "FileNotFoundError"
    /\ UNCHANGED <<root_exists, files, nfile, nedge, out_dir, program_index, structures,
                   all_edges, written, callgraph>>
    /\ UNCHANGED pvars

\* out_dir.mkdir(parents=True, exist_ok=True)
Mkdir ==
    /\ pc = "mkdir"
    /\ out_dir' = TRUE
    /\ pc' = NextPhase("mkdir") /\ nfile' = 0
    /\ UNCHANGED <<root_exists, files, nedge, program_index, structures, all_edges,
                   written, callgraph, error>>
    /\ UNCHANGED pvars

\* build_index: one file of "for f in root.rglob('*.cbl')"
BuildIndexStep ==
    /\ pc = "build_index"
    /\ nfile < Len(files)
    /\ program_index' = IndexFile(program_index, files[nfile + 1])
    /\ nfile' = nfile + 1
    /\ UNCHANGED <<root_exists, files, pc, nedge, out_dir, structures, all_edges,
                   written, callgraph, error>>
    /\ UNCHANGED pvars

\* build_index returns
BuildIndexReturn ==
    /\ pc = "build_index"
    /\ nfile = Len(files)
    /\ pc' = NextPhase("build_index") /\ nfile' = 0
    /\ UNCHANGED <<root_exists, files, nedge, out_dir, program_index, structures,
                   all_edges, written, callgraph, error>>
    /\ UNCHANGED pvars

\* Pass 1: one file of "for file in repo_root.rglob('*.cbl')".  read_text()
\* in parse() raises for a file that cannot be read; nothing catches it.
ParseFile ==
    /\ pc = "parse"
    /\ nfile < Len(files)
    /\ IF files[nfile + 1].readable
       THEN /\ structures' = Append(structures,
                                 Parse(CobolParserInit(files[nfile + 1].path), files[nfile + 1].text))
            /\ nfile' = nfile + 1
            /\ UNCHANGED <<pc, error>>
       ELSE /\ pc' = "raised" /\ error' = "OSError"
            /\ UNCHANGED <<structures, nfile>>
    /\ UNCHANGED <<root_exists, files, nedge, out_dir, program_index, all_edges,
                   written, callgraph>>
    /\ UNCHANGED pvars

\* Pass 1 is over
ParseLoopExit ==
    /\ pc = "parse"
    /\ nfile = Len(files)
    /\ pc' = NextPhase("parse") /\ nfile' = 0 /\ nedge' = 0
    /\ UNCHANGED <<root_exists, files, out_dir, program_index, structures,
                   all_edges, written, callgraph, error>>
    /\ UNCHANGED pvars

\* Pass 2: one edge of "for edge in parser.calls"; the edge is the dict
\* held by parser.calls, so to_file shows there too
ResolveEdge ==
    /\ pc = "resolve"
    /\ nfile < Len(structures)
    /\ nedge < Len(structures[nfile + 1].calls)
    /\ LET edge == Resolve(program_index, structures[nfile + 1].calls[nedge + 1]) IN
          /\ structures' = [structures EXCEPT ![nfile + 1].calls[nedge + 1] = edge]
          /\ all_edges' = AppendEdge(all_edges, edge)
    /\ nedge' = nedge + 1
    /\ UNCHANGED <<root_exists, files, pc, nfile, out_dir, program_index, written,
                   callgraph, error>>
    /\ UNCHANGED pvars

\* Pass 2: the edges of a parser are exhausted, the next parser is taken
ResolveNextParser ==
    /\ pc = "resolve"
    /\ nfile < Len(structures)
    /\ nedge = Len(structures[nfile + 1].calls)
    /\ nfile' = nfile + 1 /\ nedge' = 0
    /\ UNCHANGED <<root_exists, files, pc, out_dir, program_index, structures,
                   all_edges, written, callgraph, error>>
    /\ UNCHANGED pvars

\* Pass 2 is over
ResolveLoopExit ==
    /\ pc = "resolve"
    /\ nfile = Len(structures)
    /\ pc' = NextPhase("resolve") /\ nfile' = 0
    /\ UNCHANGED <<root_exists, files, nedge, out_dir, program_index, structures,
                   all_edges, written, callgraph, error>>
    /\ UNCHANGED pvars

\* one file of "for file, parser in structures.items()": its JSON is written
EmitStructure ==
    /\ pc = "emit"
    /\ nfile < Len(structures)
    /\ written' = Append(written, ToDict(structures[nfile + 1]))
    /\ nfile' = nfile + 1
    /\ UNCHANGED <<root_exists, files, pc, nedge, out_dir, program_index, structures,
                   all_edges, callgraph, error>>
    /\ UNCHANGED pvars

\* all structure files are written
EmitLoopExit ==
    /\ pc = "emit"
    /\ nfile = Len(structures)
    /\ pc' = NextPhase("emit") /\ nfile' = 0
    /\ UNCHANGED <<root_exists, files, nedge, out_dir, program_index, structures,
                   all_edges, written, callgraph, error>>
    /\ UNCHANGED pvars

\* callgraph_file.write_text(json.dumps(all_edges, indent=2))
WriteCallgraph ==
    /\ pc = "callgraph"
    /\ callgraph' = all_edges
    /\ pc' = NextPhase("callgraph")
    /\ UNCHANGED <<root_exists, files, nfile, nedge, out_dir, program_index, structures,
                   all_edges, written, error>>
    /\ UNCHANGED pvars

Next ==
    \/ Main \/ Mkdir
    \/ BuildIndexStep \/ BuildIndexReturn
    \/ ParseFile \/ ParseLoopExit
    \/ ResolveEdge \/ ResolveNextParser \/ ResolveLoopExit
    \/ EmitStructure \/ EmitLoopExit
    \/ WriteCallgraph

Spec == Init /\ [][Next]_vars

----------------------------------------------------------------------------
(* Source-side notions the properties of the parser run are stated with.   *)

\* the lines consumed so far
Consumed == SubSeq(text, 1, lineno)

IsCode(line) == ~COMMENT(line) /\ line # <<>>
IsDivisionHeader(line) == IsCode(line) /\ DIV_RE(line) # <<>>
IsSectionHeader(line) ==
    IsCode(line) /\ ~IsDivisionHeader(line) /\ SEC_RE(line) # <<>>
IsProgramIdLine(line) ==
    /\ IsCode(line) /\ ~IsDivisionHeader(line) /\ ~IsSectionHeader(line)
    /\ PROGID_RE(line) # <<>>
IsParagraphHeader(line) ==
    /\ IsCode(line) /\ ~IsDivisionHeader(line) /\ ~IsSectionHeader(line)
    /\ ~IsProgramIdLine(line) /\ PAR_RE(line) # <<>>

\* every CALL and PERFORM target of a line, in the order they stand on it
RECURSIVE TargetsFrom(_, _)
TargetsFrom(line, i) ==
    IF i >= Len(line) THEN <<>>
    ELSE (IF i \in CallSites(line) \cup PerfSites(line)
          THEN <<line[i + 1].s>> ELSE <<>>) \o TargetsFrom(line, i + 1)

AllTargets(line) == TargetsFrom(line, 1)

\* For the first n lines: the division and paragraph the n-th line leaves
\* open, and for every paragraph name the targets found in the lines that
\* belong to a paragraph of that name.
RECURSIVE SourceTargets(_, _)
SourceTargets(lines, n) ==
    IF n = 0 THEN [div |-> None, para |-> None, tg |-> EmptyDict]
    ELSE LET r == SourceTargets(lines, n - 1)
             line == lines[n]
         IN  IF ~IsCode(line) THEN r
             ELSE IF IsDivisionHeader(line)
             THEN [r EXCEPT !.div = Upper(DIV_RE(line)[1]), !.para = None]
             ELSE IF IsSectionHeader(line) \/ IsProgramIdLine(line) THEN r
             ELSE IF r.div # "PROCEDURE" THEN r
             ELSE IF IsParagraphHeader(line)
             THEN [r EXCEPT !.para = PAR_RE(line)[1],
                            !.tg = IF PAR_RE(line)[1] \in DOMAIN r.tg THEN r.tg
                                   ELSE r.tg @@ (PAR_RE(line)[1] :> <<>>)]
             ELSE IF r.para = None THEN r
             ELSE [r EXCEPT !.tg[r.para] = @ \o AllTargets(line)]

TargetsOf(statements) == [i \in 1..Len(statements) |-> statements[i].target]

\* C3: the statements recorded for every paragraph P are exactly the CALL
\* and PERFORM targets of the source lines belonging to P, in source order.
RoundTripStatements ==
    \A name \in DOMAIN parser.paragraphs :
        /\ name \in DOMAIN SourceTargets(text, lineno).tg
        /\ TargetsOf(parser.paragraphs[name].statements)
             = SourceTargets(text, lineno).tg[name]

\* every DataItem recorded so far
DataItems == UNION {Range(parser.data_sections[s]) : s \in DOMAIN parser.data_sections}

\* C4 as stated: every recorded DataItem has a level between 1 and 49.
LevelBetween1And49 == \A it \in DataItems : it.level \in 1..49

\* C4 as amended: every recorded DataItem has a level between 0 and 99,
\* the values of a two-digit level number.
LevelIsTwoDigitNumber == \A it \in DataItems : it.level \in 0..99

\* a level-77 item has been recorded
WitnessLevel77Recorded == \E it \in DataItems : it.level = 77

ItemCount(ds, s) == IF s \in DOMAIN ds THEN Len(ds[s]) ELSE 0

\* among the lines consumed, the most recent division header is a DATA
\* DIVISION header and a header of section s stands after it
SectionSeenSinceDataHeader(s) ==
    \E i \in 1..lineno :
        /\ IsDivisionHeader(text[i]) /\ Upper(DIV_RE(text[i])[1]) = "DATA"
        /\ \A k \in (i + 1)..lineno : ~IsDivisionHeader(text[k])
        /\ \E j \in (i + 1)..lineno :
               IsSectionHeader(text[j]) /\ Upper(SEC_RE(text[j])[1]) = s

\* C5: a DataItem is added only while the current division is the data
\* division, and it is filed under a section whose header was seen after
\* the most recent data-division header.
DataItemOnlyInDataDivision ==
    [][ parser'.data_sections # parser.data_sections =>
          /\ parser.div = "DATA"
          /\ parser.sec # None
          /\ SectionSeenSinceDataHeader(parser.sec)
          /\ DOMAIN parser'.data_sections = DOMAIN parser.data_sections \cup {parser.sec}
          /\ \A s \in DOMAIN parser'.data_sections :
                ItemCount(parser'.data_sections, s) =
                    ItemCount(parser.data_sections, s) + (IF s = parser.sec THEN 1 ELSE 0)
      ]_vars

\* a DataItem has just been filed under the open section of the data division
WitnessItemFiledInDataDivision ==
    /\ ppc = "parsing" /\ lineno >= 3
    /\ parser.div = "DATA" /\ parser.sec = "WORKING-STORAGE"
    /\ ItemCount(parser.data_sections, "WORKING-STORAGE") >= 1
    /\ VAR_RE(text[lineno]) # <<>>

\* the uppercased names of the division headers among the lines consumed
HeaderIndexes == {i \in 1..lineno : IsDivisionHeader(text[i])}
HeaderName(i) == Upper(DIV_RE(text[i])[1])
FirstHeader(name) == MinOf({i \in HeaderIndexes : HeaderName(i) = name})

\* C6: after every prefix of the lines, the division list has no duplicate
\* and lists the uppercased division names in order of first occurrence.
DivisionsFirstOccurrenceOrder ==
    LET d == parser.divisions IN
    /\ \A i, j \in 1..Len(d) : i # j => d[i] # d[j]
    /\ Range(d) = {HeaderName(i) : i \in HeaderIndexes}
    /\ \A i, j \in 1..Len(d) : i < j => FirstHeader(d[i]) < FirstHeader(d[j])

\* a division header has been repeated after a header of another division
WitnessRepeatedDivisionHeader ==
    /\ Len(parser.divisions) = 2
    /\ \E i, k, j \in HeaderIndexes :
          i < k /\ k < j /\ HeaderName(i) = HeaderName(j) /\ HeaderName(i) # HeaderName(k)

\* C7: the line numbers of the statements of every paragraph are
\* non-decreasing along the statements list.
StatementsInLineOrder ==
    \A name \in DOMAIN parser.paragraphs :
        LET st == parser.paragraphs[name].statements IN
        \A i, j \in 1..Len(st) : i < j => st[i].line <= st[j].line

\* a paragraph holds statements of two different lines
WitnessStatementsOfTwoLines ==
    \E name \in DOMAIN parser.paragraphs :
        LET st == parser.paragraphs[name].statements IN
        \E i, j \in 1..Len(st) : st[i].line < st[j].line

----------------------------------------------------------------------------
(* Properties of the repo run *)

MaxOf(S) == CHOOSE x \in S : \A y \in S : x >= y

IsResolved(edge) == "to_file" \in DOMAIN edge

RawOf(edge) ==
    [from_file |-> edge.from_file, from_paragraph |-> edge.from_paragraph,
     line |-> edge.line, to_program |-> edge.to_program]

\* the resolution pass is over
Resolved == pc \in {"emit", "callgraph", "done"}

\* every edge held by the parsers
EdgePositions ==
    UNION { {<<j, k>> : k \in 1..Len(structures[j].calls)} : j \in 1..Len(structures) }

\* the case-folded identifier sniff_program_id yields for every file
SniffedIds ==
    [k \in 1..Len(files) |->
        LET pid == sniff_program_id(files[k]) IN
        IF pid = None THEN None ELSE Lower(pid)]

\* the files whose sniffed identifier (ids) is the target of the edge, case
\* folded
Declaring(ids, edge) == { k \in DOMAIN ids : ids[k] = Lower(edge.to_program) }

\* C1 as stated: after the resolution pass every edge whose target is the
\* sniffed identifier of a file F has the path of F as to_file, for every
\* such F, and every other edge has None.
ResolvesToEveryDeclaringFile ==
    Resolved =>
        LET ids == SniffedIds IN
        \A pos \in EdgePositions :
            LET edge == structures[pos[1]].calls[pos[2]]
                decl == Declaring(ids, edge)
            IN  /\ IsResolved(edge)
                /\ IF decl = {} THEN edge.to_file = None
                   ELSE \A k \in decl : edge.to_file = files[k].path

\* C1 as amended: after the resolution pass every edge whose target is the
\* sniffed identifier of some file has as to_file the path of the last
\* enumerated such file, and every other edge has None.
ResolvesToLastDeclaringFile ==
    Resolved =>
        LET ids == SniffedIds IN
        \A pos \in EdgePositions :
            LET edge == structures[pos[1]].calls[pos[2]]
                decl == Declaring(ids, edge)
            IN  /\ IsResolved(edge)
                /\ IF decl = {} THEN edge.to_file = None
                   ELSE edge.to_file = files[MaxOf(decl)].path

\* an edge whose target two files declare has been resolved, and so has an
\* edge whose target no file declares
WitnessDuplicateIdResolved ==
    /\ Resolved
    /\ \E pos \in EdgePositions :
          Cardinality(Declaring(SniffedIds, structures[pos[1]].calls[pos[2]])) >= 2
    /\ \E pos \in EdgePositions :
          Declaring(SniffedIds, structures[pos[1]].calls[pos[2]]) = {}

\* C2: a file that cannot be read does not end the run.
UnreadableFileDoesNotAbort ==
    (\E k \in 1..Len(files) : ~files[k].readable) => error = None

\* the edge at position <<j, k>> has been taken by the resolution loop
Visited(j, k) ==
    \/ Resolved
    \/ pc = "resolve" /\ (j <= nfile \/ (j = nfile + 1 /\ k <= nedge))

\* the edges of the first n parsers the resolution loop has taken, in order
RECURSIVE VisitedEdges(_)
VisitedEdges(n) ==
    IF n = 0 THEN <<>>
    ELSE VisitedEdges(n - 1) \o
         SelectSeq(structures[n].calls, LAMBDA ed : IsResolved(ed))

\* the raw edges of the first n files, in file order then statement order
RECURSIVE RawEdgesOfFiles(_)
RawEdgesOfFiles(n) ==
    IF n = 0 THEN <<>>
    ELSE RawEdgesOfFiles(n - 1) \o Parse(FreshParser(files[n].path), files[n].text).calls

\* C9: the flat edge list holds every raw edge exactly once, in file order
\* then statement order, and each edge gets its resolution exactly once
\* (when the resolution loop takes it).
EdgeListHoldsEveryEdgeOnce ==
    /\ \A pos \in EdgePositions :
          IsResolved(structures[pos[1]].calls[pos[2]]) <=> Visited(pos[1], pos[2])
    /\ all_edges = VisitedEdges(Len(structures))
    /\ Resolved =>
          [k \in 1..Len(all_edges) |-> RawOf(all_edges[k])] = RawEdgesOfFiles(Len(files))
    /\ pc = "done" => callgraph = all_edges

\* the run ended with edges of two files in the list, two of one file, and
\* an unresolved one
WitnessEdgesOfTwoFiles ==
    /\ pc = "done"
    /\ \E a, b \in 1..Len(all_edges) :
          a < b /\ all_edges[a].from_file # all_edges[b].from_file
    /\ \E a, b \in 1..Len(all_edges) :
          a < b /\ all_edges[a].from_file = all_edges[b].from_file
    /\ \E a \in 1..Len(all_edges) : all_edges[a].to_file = None
    /\ \E a \in 1..Len(all_edges) : all_edges[a].to_file # None

\* some edge has been resolved
SomeEdgeResolved ==
    \/ all_edges # <<>>
    \/ \E pos \in EdgePositions : IsResolved(structures[pos[1]].calls[pos[2]])

\* C10: once an edge has been resolved, the index is the complete index of
\* the files (so it was built before and is not modified after) and every
\* file has been parsed.
ResolutionAfterIndexAndParsing ==
    SomeEdgeResolved =>
        /\ program_index = build_index(files, Len(files))
        /\ Len(structures) = Len(files)

\* an edge has been resolved against a non-empty index of two files
WitnessResolvingAgainstIndex ==
    /\ pc = "resolve" /\ SomeEdgeResolved
    /\ Len(files) = 2 /\ DOMAIN program_index # {}

----------------------------------------------------------------------------
(* Further properties of the repo run *)

\* C11: when the root does not exist the run ends with FileNotFoundError
\* before any file is sniffed or parsed and before any output is created.
MissingRootFailsFirst ==
    ~root_exists =>
        /\ pc \in {"main", "raised"}
        /\ pc = "raised" => error = "FileNotFoundError"
        /\ out_dir = FALSE /\ written = <<>> /\ callgraph = None
        /\ program_index = EmptyDict /\ structures = <<>> /\ all_edges = <<>>
        /\ nfile = 0

\* the run has ended on the missing root
WitnessMissingRootRaised ==
    ~root_exists /\ pc = "raised" /\ error = "FileNotFoundError" /\ ~out_dir

\* the index of the first n files, stated from the sniffed identifiers: one
\* entry per identifier, holding the last file that declares it
IndexAsClaimed(ids, n) ==
    LET keys == {ids[k] : k \in 1..n} \ {None} IN
    /\ DOMAIN program_index = keys
    /\ \A key \in keys :
          program_index[key] = files[MaxOf({k \in 1..n : ids[k] = key})].path

\* the files the index loop has taken
Indexed ==
    CASE pc = "build_index" -> nfile
      [] pc \in {"parse", "resolve", "emit", "callgraph", "done"} -> Len(files)
      [] pc = "raised" /\ error = "OSError" -> Len(files)
      [] OTHER -> 0

\* C13 as stated: the index holds for every identifier the last file that
\* declares it, a file without sniffed identifier has no entry, and a call
\* whose target is the file-name identifier of such a file stays unresolved.
IndexLastWinsStemCallUnresolved ==
    LET ids == SniffedIds IN
    /\ IndexAsClaimed(ids, Indexed)
    /\ \A k \in 1..Len(files) :
          ids[k] = None =>
            /\ files[k].path \notin Range(program_index)
            /\ \A n \in 1..Len(all_edges) :
                  Lower(all_edges[n].to_program) = Lower(Stem(files[k].path))
                      => all_edges[n].to_file = None

\* C13 as amended: the index holds for every identifier the last file that
\* declares it, a file without sniffed identifier has no entry, and a call
\* whose target is the file-name identifier of such a file is never resolved
\* to that file: it stays unresolved unless a file declares that identifier.
IndexLastWinsStemNotIndexed ==
    LET ids == SniffedIds IN
    /\ IndexAsClaimed(ids, Indexed)
    /\ \A k \in 1..Len(files) :
          ids[k] = None =>
            /\ files[k].path \notin Range(program_index)
            /\ \A n \in 1..Len(all_edges) :
                  Lower(all_edges[n].to_program) = Lower(Stem(files[k].path))
                      => /\ all_edges[n].to_file # files[k].path
                         /\ Declaring(ids, all_edges[n]) = {}
                               => all_edges[n].to_file = None

\* a file without identifier is called by its file name and the call stays
\* unresolved, while the index holds an identifier
WitnessStemCallUnresolved ==
    /\ Resolved /\ DOMAIN program_index # {}
    /\ \E k \in 1..Len(files) : \E n \in 1..Len(all_edges) :
          /\ SniffedIds[k] = None
          /\ Lower(all_edges[n].to_program) = Lower(Stem(files[k].path))
          /\ all_edges[n].to_file = None

----------------------------------------------------------------------------
(* Further properties of the parser run *)

\* a step of the for loop that consumes the line raw
Consumes(raw) == ppc = "parsing" /\ lineno' = lineno + 1 /\ text[lineno + 1] = raw

\* the line goes to the CALL / PERFORM detection when a paragraph is open
IsStatementLine(line) ==
    /\ IsCode(line) /\ ~IsDivisionHeader(line) /\ ~IsSectionHeader(line)
    /\ ~IsProgramIdLine(line) /\ ~IsParagraphHeader(line)

StatementsIn(p, name) ==
    IF name \in DOMAIN p.paragraphs THEN p.paragraphs[name].statements ELSE <<>>

\* what C12 says a statement line adds to the open paragraph and to the edges
StatementLineEffect(raw) ==
    LET ln == lineno + 1
        inv == IF CALL_RE(raw) # <<>>
               THEN <<[type |-> "CALL", target |-> CALL_RE(raw)[1], line |-> ln]>>
               ELSE <<>>
        jmp == IF PERF_RE(raw) # <<>>
               THEN <<[type |-> "PERFORM", target |-> PERF_RE(raw)[1], line |-> ln]>>
               ELSE <<>>
        edg == IF CALL_RE(raw) # <<>>
               THEN <<[from_file |-> parser.path, from_paragraph |-> parser.para,
                       line |-> ln, to_program |-> CALL_RE(raw)[1]]>>
               ELSE <<>>
    IN  /\ StatementsIn(parser', parser.para)
             = StatementsIn(parser, parser.para) \o inv \o jmp
        /\ parser'.calls = parser.calls \o edg

\* the scenario of C12: PROGRAM-ID MAIN, paragraph START-UP, one CALL of
\* SUB1 and one PERFORM of CLEANUP
ScenarioText ==
    << <<Wd("PROGRAM-ID"), Wd("MAIN")>>,
       <<W("procedure"), Wd("division")>>,
       <<Wd("START-UP")>>,
       <<W("CALL"), Q("SUB1"), W("PERFORM"), W("CLEANUP")>> >>

ScenarioResult ==
    /\ parser.program_id = "MAIN"
    /\ DOMAIN parser.paragraphs = {"START-UP"}
    /\ Len(parser.paragraphs["START-UP"].statements) = 2
    /\ Len(parser.calls) = 1
    /\ parser.calls[1].to_program = "SUB1"

\* C12: inside an open paragraph of the procedure division a CALL line adds
\* one CALL statement and one raw edge, a PERFORM line adds one PERFORM
\* statement and no edge, a line with both adds both statements; the
\* scenario yields two statements and one edge to SUB1.
StatementLineAddsStatements ==
    /\ [][ \A raw \in ParserLines :
             (Consumes(raw) /\ parser.div = "PROCEDURE" /\ parser.para # None
                 /\ IsStatementLine(raw)) => StatementLineEffect(raw) ]_vars
    /\ []((text = ScenarioText /\ lineno = Len(text)) => ScenarioResult)

\* the scenario has been parsed
WitnessScenarioParsed ==
    text = ScenarioText /\ ppc = "parsed" /\ ScenarioResult

\* the declaration lines among the lines consumed
DeclarationLines == {k \in 1..lineno : IsProgramIdLine(text[k])}

\* C14: without a declaration line among the lines parsed the program
\* identifier is the stem of the file name; with one, it is the captured
\* name (of the latest declaration line).
ProgramIdDefaultsToStem ==
    IF DeclarationLines = {}
    THEN parser.program_id = Stem(parser.path)
    ELSE parser.program_id = PROGID_RE(text[MaxOf(DeclarationLines)])[1]

\* a file of several lines without declaration has been parsed
WitnessParsedWithoutDeclaration ==
    /\ ppc = "parsed" /\ Len(text) >= 3 /\ DeclarationLines = {}
    /\ parser.program_id = "main" /\ parser.divisions # <<>>

\* the latest division header among the lines consumed (0: none)
LastDivisionHeader == IF HeaderIndexes = {} THEN 0 ELSE MaxOf(HeaderIndexes)

SectionHeaderSince(i) == \E k \in (i + 1)..lineno : IsSectionHeader(text[k])

ParagraphHeaderSince(i) ==
    HeaderName(i) = "PROCEDURE" /\ \E k \in (i + 1)..lineno : IsParagraphHeader(text[k])

\* C15: a division header sets the current division and resets current
\* section and current paragraph to None; after it no data item is recorded
\* until a section header is seen, and no statement and no call edge is
\* recorded, for any paragraph, until a paragraph header is seen.
DivisionHeaderClosesContext ==
    [][ \A raw \in ParserLines :
          Consumes(raw) =>
            /\ IsDivisionHeader(raw) =>
                  /\ parser'.div = Upper(DIV_RE(raw)[1])
                  /\ parser'.sec = None /\ parser'.para = None
            /\ (LastDivisionHeader > 0 /\ ~SectionHeaderSince(LastDivisionHeader))
                  => parser'.data_sections = parser.data_sections
            /\ (LastDivisionHeader > 0 /\ ~ParagraphHeaderSince(LastDivisionHeader))
                  => /\ parser'.calls = parser.calls
                     /\ ~IsParagraphHeader(raw)
                           => parser'.paragraphs = parser.paragraphs ]_vars

\* a CALL line directly after a division header that followed an open
\* paragraph has been consumed, and nothing was recorded
WitnessCallAfterDivisionHeaderDropped ==
    /\ lineno = 4 /\ IsParagraphHeader(text[2]) /\ DOMAIN parser.paragraphs # {}
    /\ IsDivisionHeader(text[3]) /\ HeaderName(3) = "PROCEDURE"
    /\ IsStatementLine(text[4]) /\ CallSites(text[4]) # {}
    /\ parser.calls = <<>> /\ parser.para = None

\* the names of the paragraph headers consumed in the procedure division
OpenedParagraphs ==
    { PAR_RE(text[k])[1] :
        k \in {j \in 1..lineno : /\ IsParagraphHeader(text[j])
                                 /\ SourceTargets(text, j - 1).div = "PROCEDURE"} }

\* C16: every recorded statement and every raw edge belongs to a paragraph
\* other than None that a paragraph header opened in the procedure
\* division, and a CALL or PERFORM line seen with no paragraph open or
\* outside the procedure division changes neither paragraphs nor edges.
StatementsOnlyInOpenParagraph ==
    /\ [](/\ None \notin DOMAIN parser.paragraphs
          /\ DOMAIN parser.paragraphs \subseteq OpenedParagraphs
          /\ \A n \in 1..Len(parser.calls) :
                /\ parser.calls[n].from_paragraph # None
                /\ parser.calls[n].from_paragraph \in OpenedParagraphs)
    /\ [][ \A raw \in ParserLines :
             (/\ Consumes(raw)
              /\ CallSites(raw) \cup PerfSites(raw) # {}
              /\ parser.para = None \/ parser.div # "PROCEDURE")
                 => /\ parser'.paragraphs = parser.paragraphs
                    /\ parser'.calls = parser.calls ]_vars

\* a CALL line before the first paragraph was dropped, a later one recorded
WitnessCallOutsideParagraphDropped ==
    /\ lineno = 4 /\ IsDivisionHeader(text[1]) /\ HeaderName(1) = "PROCEDURE"
    /\ IsStatementLine(text[2]) /\ CallSites(text[2]) # {}
    /\ IsParagraphHeader(text[3])
    /\ Len(parser.calls) = 1 /\ parser.calls[1].line = 4

\* C17: a section header changes the current section and nothing else; in
\* the procedure division it leaves the paragraph open, so that a CALL line
\* after it is attributed to that paragraph.
SectionHeaderChangesOnlySection ==
    [][ \A raw \in ParserLines :
          Consumes(raw) =>
            /\ IsSectionHeader(raw)
                  => parser' = [parser EXCEPT !.sec = Upper(SEC_RE(raw)[1])]
            /\ (/\ lineno >= 1 /\ IsSectionHeader(text[lineno])
                /\ parser.div = "PROCEDURE" /\ parser.para # None
                /\ IsStatementLine(raw) /\ CALL_RE(raw) # <<>>)
                  => /\ Len(parser'.calls) = Len(parser.calls) + 1
                     /\ parser'.calls[Len(parser'.calls)].from_paragraph = parser.para ]_vars

\* a CALL line after a section header inside a paragraph has been recorded
WitnessCallAfterSectionHeader ==
    /\ lineno = 4 /\ IsParagraphHeader(text[2]) /\ IsSectionHeader(text[3])
    /\ parser.sec # None /\ parser.para # None
    /\ Len(parser.calls) = 1 /\ parser.calls[1].line = 4
    /\ parser.calls[1].from_paragraph = parser.para
    /\ Len(parser.paragraphs[parser.para].statements) >= 1

\* C18: after parse() every raw edge has its CALL statement, of the same
\* target and line, in the statements of its paragraph, and every CALL
\* statement has its raw edge.
EdgesMatchCallStatements ==
    ppc # "parsing" =>
        /\ \A n \in 1..Len(parser.calls) :
              LET edge == parser.calls[n] IN
              \E k \in 1..Len(StatementsIn(parser, edge.from_paragraph)) :
                  LET st == parser.paragraphs[edge.from_paragraph].statements[k] IN
                  st.type = "CALL" /\ st.target = edge.to_program /\ st.line = edge.line
        /\ \A name \in DOMAIN parser.paragraphs :
              \A k \in 1..Len(parser.paragraphs[name].statements) :
                  LET st == parser.paragraphs[name].statements[k] IN
                  st.type = "CALL" =>
                      \E n \in 1..Len(parser.calls) :
                          /\ parser.calls[n].from_paragraph = name
                          /\ parser.calls[n].to_program = st.target
                          /\ parser.calls[n].line = st.line

\* C20: a second parse() on the same CobolParser leaves divisions, data
\* sections, paragraphs and raw edges as the first parse() left them.
SecondParseChangesNothing ==
    ppc = "parsed_twice" =>
        /\ parser.divisions = last.divisions
        /\ parser.data_sections = last.data_sections
        /\ parser.paragraphs = last.paragraphs
        /\ parser.calls = last.calls

----------------------------------------------------------------------------
(* Parser and sniffer *)

HasDeclarationLine(f) == \E k \in 1..Len(f.text) : IsProgramIdLine(f.text[k])

\* C19: for every parsed file with a declaration line the program_id of the
\* structure record is, up to case, the identifier build_index registers the
\* file under; so the record of the file an edge resolves to carries the
\* target of the edge as program_id.
ParserAndSnifferAgree ==
    LET ids == SniffedIds IN
    /\ \A k \in 1..Len(structures) :
          HasDeclarationLine(files[k])
              => ids[k] # None /\ Lower(structures[k].program_id) = ids[k]
    /\ Resolved =>
          \A n \in 1..Len(all_edges) : \A k \in 1..Len(structures) :
              all_edges[n].to_file = files[k].path
                  => Lower(structures[k].program_id) = Lower(all_edges[n].to_program)

====
